---- MODULE Spec2Model ----
(***************************************************************************)
(* The sales / returns reporting pipeline of amazon_returns: the loaders,  *)
(* the group-by aggregations, the sales-returns merges and the derived     *)
(* return rate of returns.py (Home page), search_products.py (Search page) *)
(* and top_sellers.py (Top Sellers page).                                  *)
(*                                                                         *)
(* A DataFrame is a sequence of records (one per row, in row order).  A    *)
(* missing string cell is the marker NaN; a float cell is a record         *)
(* [k, v] with k "num", "nan" or "inf".  ASIN, SKU and the search query    *)
(* are sequences of one-character strings, because the code upper-cases    *)
(* them and searches them for substrings.                                  *)
(***************************************************************************)
EXTENDS Integers, Sequences, FiniteSets, TLC

VARIABLES
    selected,               \* the page chosen in the sidebar option_menu
    pc,                     \* position of the script run
    returns_csv,            \* rows of Data/Returns/Returns_<Year>.csv, concatenated
    sales_csv,              \* rows of Data/Sales/Sales_<year>.csv, concatenated
    returns_tsv,            \* rows of Data/Returns/2024/*.tsv, concatenated
    sales_txt,              \* rows of Data/Sales/2024/*.txt, concatenated
    search_query,           \* the text typed in the Search page
    returns_summary_table,  \* result of create_returns_summary_table
    top_returns_table,      \* result of create_top_returns_table
    returns_reasons_table,  \* result of create_returns_reasons_table
    search_result,          \* merged_data of search_products_page
    top_sellers_table,      \* result of create_top_sellers_table
    ranking_table,          \* a merged_data table handed to nlargest
    ranking_result,         \* the rows nlargest returned for it
    skus,                   \* the argument of get_unique_skus
    unique_skus,            \* what get_unique_skus returned for it
    sku,                    \* the argument of clean_sku_string
    clean_sku,              \* what clean_sku_string returned for it
    disk,                   \* the revision of each returns file on disk
    load_data_cache,        \* st.cache_data of load_data, by file path
    load_all_cache,         \* st.cache_data of load_all_returns_data, by ()
    loaded,                 \* what the last load returned
    session_state,          \* st.session_state of the year-on-year page
    show_filters,           \* the 'Show Advanced Filters' checkbox
    on_screen,              \* the buttons the last run of the page rendered
    last_rerun,             \* the click the last run handled, the count it began with
    reruns                  \* the runs of the page so far

\* The state of a script run of one page.
page == <<selected, pc, returns_csv, sales_csv, returns_tsv, sales_txt, search_query,
          returns_summary_table, top_returns_table, returns_reasons_table,
          search_result, top_sellers_table>>

\* The state of the operations that are checked on their own.
ranking == <<ranking_table, ranking_result>>
skuVars == <<skus, unique_skus, sku, clean_sku>>
cacheVars == <<disk, load_data_cache, load_all_cache, loaded>>
filterVars == <<session_state, show_filters, on_screen, last_rerun, reruns>>
aux == <<ranking, skuVars, cacheVars, filterVars>>

vars == <<page, aux>>

---------------------------------------------------------------------------
(* Bounds of the model.                                                    *)

MaxReturns == 2         \* rows in the yearly returns files of a run
MaxSales == 2           \* rows in the sales files of a run
MaxReturns2024 == 3     \* rows in the 2024 returns files of a Top Sellers run
MaxDated == 3           \* rows in the yearly returns files of a summary-table run
MaxRanked == 3          \* rows of a merged table handed to nlargest on its own
MaxSkus == 3            \* SKUs in the list handed to get_unique_skus
MaxEdits == 2           \* times a returns file is written again on disk
MaxReruns == 14         \* runs of the year-on-year page

---------------------------------------------------------------------------
(* Strings.                                                                *)

\* Python compares strings by code point.
Ord(c) ==
    CASE c = " " -> 32 [] c = "," -> 44 [] c = "-" -> 45
      [] c = "1" -> 49 [] c = "2" -> 50
      [] c = "A" -> 65 [] c = "B" -> 66 [] c = "F" -> 70
      [] c = "S" -> 83 [] c = "X" -> 88
      [] c = "b" -> 98 [] c = "s" -> 115

RECURSIVE StrLess(_, _)
StrLess(a, b) ==
    IF a = <<>> THEN b # <<>>
    ELSE IF b = <<>> THEN FALSE
    ELSE IF Head(a) = Head(b) THEN StrLess(Tail(a), Tail(b))
    ELSE Ord(Head(a)) < Ord(Head(b))

UpperChar(c) == CASE c = "b" -> "B" [] c = "s" -> "S" [] OTHER -> c

\* str.upper()
Upper(s) == [i \in 1..Len(s) |-> UpperChar(s[i])]

\* str.contains(q) for a query without regular-expression metacharacters
Contains(s, q) == \E i \in 0..(Len(s) - Len(q)) : SubSeq(s, i + 1, i + Len(q)) = q

\* str.replace(old, new): the occurrences of old from the left, without
\* overlap; the text put in is not searched again.
RECURSIVE Replace(_, _, _)
Replace(s, old, new) ==
    IF Len(s) < Len(old) THEN s
    ELSE IF SubSeq(s, 1, Len(old)) = old
    THEN new \o Replace(SubSeq(s, Len(old) + 1, Len(s)), old, new)
    ELSE <<Head(s)>> \o Replace(Tail(s), old, new)

\* str.split(sep)
RECURSIVE Split(_, _)
Split(s, sep) ==
    IF ~Contains(s, sep) THEN <<s>>
    ELSE LET at == CHOOSE i \in 1..Len(s) :
                       /\ SubSeq(s, i, i + Len(sep) - 1) = sep
                       /\ \A j \in 1..(i - 1) : SubSeq(s, j, j + Len(sep) - 1) # sep
         IN  <<SubSeq(s, 1, at - 1)>> \o Split(SubSeq(s, at + Len(sep), Len(s)), sep)

\* str.strip()
Strip(s) ==
    LET inked == {i \in 1..Len(s) : s[i] # " "}
    IN  IF inked = {} THEN <<>>
        ELSE SubSeq(s, CHOOSE i \in inked : \A j \in inked : i <= j,
                       CHOOSE i \in inked : \A j \in inked : j <= i)

\* sep.join(list)
RECURSIVE Join(_, _)
Join(list, sep) ==
    IF list = <<>> THEN <<>>
    ELSE IF Len(list) = 1 THEN list[1]
    ELSE list[1] \o sep \o Join(Tail(list), sep)

\* A missing (NaN / None) cell of a string column.
NaN == "NaN"

\* The return reasons of the model, in Python's string order.
ReasonOrder == <<"DEFECTIVE", "UNWANTED_ITEM">>
Reasons == {ReasonOrder[i] : i \in 1..Len(ReasonOrder)}
ReasonRank(r) == CHOOSE i \in 1..Len(ReasonOrder) : ReasonOrder[i] = r
ReasonLess(a, b) == ReasonRank(a) < ReasonRank(b)

---------------------------------------------------------------------------
(* Float cells.  v is the value of a "num" cell; rates are kept in         *)
(* hundredths of a percent, which is what two decimals can show.           *)

FNum(n) == [k |-> "num", v |-> n]
FNaN == [k |-> "nan", v |-> 0]
FInf == [k |-> "inf", v |-> 0]

\* n / d rounded to the nearest integer, halves to even (numpy round).
RoundHalfEven(n, d) ==
    LET q == n \div d
        r == n % d
    IN  IF 2 * r < d THEN q
        ELSE IF 2 * r > d THEN q + 1
        ELSE IF q % 2 = 0 THEN q ELSE q + 1

\* (a / b * 100).round(2) on float cells holding non-negative quantities:
\* x / 0 is inf, 0 / 0 and anything with NaN is NaN.
RatePct(a, b) ==
    IF a.k = "nan" \/ b.k = "nan" THEN FNaN
    ELSE IF b.v = 0 THEN (IF a.v = 0 THEN FNaN ELSE FInf)
    ELSE FNum(RoundHalfEven(a.v * 10000, b.v))

\* Series.fillna(0)
FillNa0(c) == IF c.k = "nan" THEN FNum(0) ELSE c

---------------------------------------------------------------------------
(* Sequences.                                                              *)

RECURSIVE SeqSum(_)
SeqSum(s) == IF s = <<>> THEN 0 ELSE Head(s) + SeqSum(Tail(s))

\* Series.sum() of the column f of the rows s.
SumOver(s, f(_)) == SeqSum([i \in 1..Len(s) |-> f(s[i])])

Range(s) == {s[i] : i \in 1..Len(s)}

\* The elements of a finite set in ascending order of the strict total order Less.
SortedSeq(S, Less(_, _)) ==
    [p \in 1..Cardinality(S) |->
        CHOOSE x \in S : Cardinality({y \in S : Less(y, x)}) = p - 1]

\* Stable sort: row i comes after the rows that are Before it and after the
\* earlier rows that Before does not order against it.
StableSort(s, Before(_, _)) ==
    LET Ahead(i) == {j \in 1..Len(s) :
                        /\ j # i
                        /\ \/ Before(s[j], s[i])
                           \/ ~Before(s[i], s[j]) /\ j < i}
    IN  [p \in 1..Len(s) |->
            s[CHOOSE i \in 1..Len(s) : Cardinality(Ahead(i)) = p - 1]]

Take(s, n) == SubSeq(s, 1, IF Len(s) < n THEN Len(s) ELSE n)

---------------------------------------------------------------------------
(* The values the input rows of the model are drawn from.                  *)

ASINs == {<<"B", "1">>, <<"B", "2">>}
SKUs == {<<"S", "1">>, <<"S", "2">>}
ReturnQtys == {1, 2}
SaleQtys == {0, 3}

\* A result that has not been computed in this script run.
NotRun == [status |-> "none"]

---------------------------------------------------------------------------
(* The categorical reducer of the three aggregations.                      *)

Count(x, v) == Cardinality({i \in 1..Len(x) : x[i] = v})

\* SeriesMode that forgets the frequencies: the distinct values, sorted.
SeriesModeAnyValue(x) == SortedSeq(Range(x) \ {NaN}, ReasonLess)

\* SeriesMode without the sort: the most frequent values in the order of
\* their first occurrence in x.
SeriesModeFirstSeen(x) ==
    LET vals == Range(x) \ {NaN}
        top == {v \in vals : \A w \in vals : Count(x, w) <= Count(x, v)}
        First(v) == CHOOSE i \in 1..Len(x) : x[i] = v /\ \A j \in 1..(i - 1) : x[j] # v
    IN  SortedSeq(top, LAMBDA a, b : First(a) < First(b))

\* Series.mode(): dropna=True, the most frequent values, sorted.
SeriesMode(x) ==
    LET vals == Range(x) \ {NaN}
        top == {v \in vals : \A w \in vals : Count(x, w) <= Count(x, v)}
    IN  SortedSeq(top, ReasonLess)

\* The exception a reducer raises on a group, as a value of the reason column.
IndexError == "IndexError"
KeyError == "KeyError"
Raised == {IndexError, KeyError}

\* lambda x: x.mode().iloc[0] if not x.empty else "No returns"
\* (x is the 'Return Reason' column of one group)
ModeIloc0(x) ==
    IF x # <<>>
    THEN (IF SeriesMode(x) = <<>> THEN IndexError ELSE SeriesMode(x)[1])
    ELSE "No returns"

\* lambda x: pd.Series.mode(x)[0] if not x.empty else "No Returns"
ModeItem0(x) ==
    IF x # <<>>
    THEN (IF SeriesMode(x) = <<>> THEN KeyError ELSE SeriesMode(x)[1])
    ELSE "No Returns"

\* The column f of the rows s.
Column(s, f(_)) == [i \in 1..Len(s) |-> f(s[i])]

ReturnQuantityOf(r) == r.ReturnQuantity
ReturnReasonOf(r) == r.ReturnReason
QuantityOf(r) == r.quantity

\* (a1, a2) before (b1, b2) in the order groupby sorts a two-column key.
PairLess(a, b) == StrLess(a[1], b[1]) \/ (a[1] = b[1] /\ StrLess(a[2], b[2]))

\* DataFrame.nlargest(n, key): descending by key, earlier rows first among
\* equal keys (keep='first'), the first n rows.
NLargest(s, n, key(_)) == Take(StableSort(s, LAMBDA a, b : key(a) > key(b)), n)

---------------------------------------------------------------------------
(* top_sellers.py                                                          *)

TopSellersN == 500

\* TS_LoadSalesData over the distinct rows only (drop_duplicates before the sum).
TS_LoadSalesDataDistinct(sales) ==
    LET keys == SortedSeq({<<r.sku, r.asin>> : r \in Range(sales)}, PairLess)
        distinct(key) == {r \in Range(sales) : <<r.sku, r.asin>> = key}
        qty(S) == {r.quantity : r \in S}
    IN  [i \in 1..Len(keys) |->
            [SKU |-> keys[i][1], ASIN |-> keys[i][2],
             TotalSold |-> SeqSum(SortedSeq(qty(distinct(keys[i])), <))]]

\* load_sales_data: groupby(['sku', 'asin'])['quantity'].sum().reset_index()
TS_LoadSalesData(sales) ==
    LET keys == SortedSeq({<<r.sku, r.asin>> : r \in Range(sales)}, PairLess)
        grp(key) == SelectSeq(sales, LAMBDA r : <<r.sku, r.asin>> = key)
    IN  [i \in 1..Len(keys) |->
            [SKU |-> keys[i][1], ASIN |-> keys[i][2],
             TotalSold |-> SumOver(grp(keys[i]), QuantityOf)]]

\* load_returns_data: groupby('Merchant SKU').agg(sum, mode).reset_index()
TS_LoadReturnsData(returns) ==
    LET keys == SortedSeq({r.MerchantSKU : r \in Range(returns)}, StrLess)
        grp(key) == SelectSeq(returns, LAMBDA r : r.MerchantSKU = key)
    IN  [i \in 1..Len(keys) |->
            [SKU |-> keys[i],
             TotalReturns |-> SumOver(grp(keys[i]), ReturnQuantityOf),
             TopReturnReason |-> ModeItem0(Column(grp(keys[i]), ReturnReasonOf))]]

\* pd.merge(sales_by_sku, returns_by_sku, on='SKU', how='left') and the two
\* fillna lines.  returns_by_sku has one row per SKU, so a sales row meets at
\* most one returns row.
TS_Merge(sales_by_sku, returns_by_sku) ==
    [i \in 1..Len(sales_by_sku) |->
        LET l == sales_by_sku[i]
            m == SelectSeq(returns_by_sku, LAMBDA r : r.SKU = l.SKU)
            ret == IF m = <<>> THEN FNaN ELSE FNum(m[1].TotalReturns)
            why == IF m = <<>> THEN NaN ELSE m[1].TopReturnReason
        IN  [SKU |-> l.SKU, ASIN |-> l.ASIN, TotalSold |-> l.TotalSold,
             TotalReturns |-> FillNa0(ret),
             TopReturnReason |-> IF why = NaN THEN "No Returns" ELSE why]]

\* merged_data['Return Rate'], as the f'{x:.2f}%' of line 86 shows it.
TS_WithRate(merged) ==
    [i \in 1..Len(merged) |->
        [SKU |-> merged[i].SKU, ASIN |-> merged[i].ASIN,
         TotalSold |-> merged[i].TotalSold,
         TotalReturns |-> merged[i].TotalReturns,
         ReturnRate |-> RatePct(merged[i].TotalReturns, FNum(merged[i].TotalSold)),
         TopReturnReason |-> merged[i].TopReturnReason]]

TotalSoldOf(r) == r.TotalSold

\* nlargest with keep='last': among equal keys the later rows come first.
TS_NLargestKeepLast(merged, n) ==
    LET At(r) == CHOOSE i \in 1..Len(merged) : merged[i] = r
    IN  Take(StableSort(merged, LAMBDA a, b :
                 \/ TotalSoldOf(a) > TotalSoldOf(b)
                 \/ TotalSoldOf(a) = TotalSoldOf(b) /\ At(a) > At(b)), n)

\* line 83: merged_data.nlargest(n, 'Total Sold 2024')
TS_NLargest(merged, n) == NLargest(merged, n, TotalSoldOf)

\* create_top_sellers_table.  Nothing is caught: pd.concat of an empty list
\* (a directory without files, lines 32 and 54) raises ValueError, and the
\* KeyError of a reducer leaves the function.
TS_CreateTopSellersTable(sales, returns) ==
    LET sales_by_sku == TS_LoadSalesData(sales)
        returns_by_sku == TS_LoadReturnsData(returns)
        merged == TS_WithRate(TS_Merge(sales_by_sku, returns_by_sku))
    IN  IF sales = <<>> \/ returns = <<>>
        THEN [status |-> "ValueError", sales_by_sku |-> <<>>,
              returns_by_sku |-> <<>>, merged |-> <<>>, rows |-> <<>>]
        ELSE IF \E i \in 1..Len(returns_by_sku) : returns_by_sku[i].TopReturnReason \in Raised
        THEN [status |-> "KeyError", sales_by_sku |-> sales_by_sku,
              returns_by_sku |-> <<>>, merged |-> <<>>, rows |-> <<>>]
        ELSE [status |-> "ok", sales_by_sku |-> sales_by_sku,
              returns_by_sku |-> returns_by_sku, merged |-> merged,
              rows |-> TS_NLargest(merged, TopSellersN)]

---------------------------------------------------------------------------
(* returns.py: the loaders.  A file exists when the model holds rows of    *)
(* it (a yearly file: rows of that year); the loaders concatenate the      *)
(* files in the order of their lists.                                      *)

FileYears == <<2023, 2024, 2025>>
CurrentYear == 2025

YearOf(r) == r.Year

\* The rows of the files of the years ys, file after file.
RECURSIVE ConcatFiles(_, _)
ConcatFiles(rows, ys) ==
    IF ys = <<>> THEN <<>>
    ELSE SelectSeq(rows, LAMBDA r : r.Year = Head(ys)) \o ConcatFiles(rows, Tail(ys))

\* load_all_returns_data
LoadAllReturnsData(rows) == ConcatFiles(rows, FileYears)

\* load_returns_data_past_12_months / load_sales_data_past_12_months:
\* combined_df[combined_df['Year'].isin([str(current_year), str(current_year-1)])]
LoadPast12Months(rows) ==
    SelectSeq(ConcatFiles(rows, FileYears),
              LAMBDA r : r.Year \in {CurrentYear, CurrentYear - 1})

---------------------------------------------------------------------------
(* returns.py: create_top_returns_table                                    *)

TopReturnsN == 50

\* returns_data.groupby(['ASIN', 'Merchant SKU']).agg(sum, mode).reset_index()
TR_ReturnsByAsin(returns) ==
    LET keys == SortedSeq({<<r.ASIN, r.MerchantSKU>> : r \in Range(returns)}, PairLess)
        grp(key) == SelectSeq(returns, LAMBDA r : <<r.ASIN, r.MerchantSKU>> = key)
    IN  [i \in 1..Len(keys) |->
            [ASIN |-> keys[i][1], MerchantSKU |-> keys[i][2],
             ReturnQuantity |-> SumOver(grp(keys[i]), ReturnQuantityOf),
             ReturnReason |-> ModeIloc0(Column(grp(keys[i]), ReturnReasonOf))]]

\* sales_data.groupby('asin')['quantity'].sum().reset_index()
TR_SalesByAsin(sales) ==
    LET keys == SortedSeq({r.asin : r \in Range(sales)}, StrLess)
        grp(key) == SelectSeq(sales, LAMBDA r : r.asin = key)
    IN  [i \in 1..Len(keys) |->
            [ASIN |-> keys[i], UnitsSold |-> SumOver(grp(keys[i]), QuantityOf)]]

\* TR_Merge with how='inner' in place of how='left'.
TR_MergeInner(returns_by_asin, sales_by_asin) ==
    LET both == SelectSeq(returns_by_asin,
                    LAMBDA l : \E i \in 1..Len(sales_by_asin) : sales_by_asin[i].ASIN = l.ASIN)
    IN  [i \in 1..Len(both) |->
            LET l == both[i]
                m == SelectSeq(sales_by_asin, LAMBDA r : r.ASIN = l.ASIN)
            IN  [ASIN |-> l.ASIN, MerchantSKU |-> l.MerchantSKU,
                 ReturnQuantity |-> l.ReturnQuantity,
                 UnitsSold |-> FNum(m[1].UnitsSold),
                 ReturnRate |-> RatePct(FNum(l.ReturnQuantity), FNum(m[1].UnitsSold)),
                 TopReturnReason |-> l.ReturnReason]]

\* pd.merge(returns_by_asin, sales_by_asin, on='ASIN', how='left') and the
\* 'Return Rate' column.  sales_by_asin has one row per ASIN.
TR_Merge(returns_by_asin, sales_by_asin) ==
    [i \in 1..Len(returns_by_asin) |->
        LET l == returns_by_asin[i]
            m == SelectSeq(sales_by_asin, LAMBDA r : r.ASIN = l.ASIN)
            sold == IF m = <<>> THEN FNaN ELSE FNum(m[1].UnitsSold)
        IN  [ASIN |-> l.ASIN, MerchantSKU |-> l.MerchantSKU,
             ReturnQuantity |-> l.ReturnQuantity,
             UnitsSold |-> sold,
             ReturnRate |-> RatePct(FNum(l.ReturnQuantity), sold),
             TopReturnReason |-> l.ReturnReason]]

\* line 287: merged_data.nlargest(n, 'Return quantity')
TR_NLargest(merged, n) == NLargest(merged, n, ReturnQuantityOf)

\* CreateTopReturnsTableOf without the try/except of lines 263 and 311: the
\* exception of the reducer leaves the function.
CreateTopReturnsTableUncaught(returns_data, sales_data) ==
    LET returns_by_asin == TR_ReturnsByAsin(returns_data)
        sales_by_asin == TR_SalesByAsin(sales_data)
        merged == TR_Merge(returns_by_asin, sales_by_asin)
    IN  IF returns_data = <<>> \/ sales_data = <<>>
        THEN [status |-> "empty", returns_by_asin |-> <<>>, sales_by_asin |-> <<>>,
              merged |-> <<>>, rows |-> <<>>]
        ELSE IF \E i \in 1..Len(returns_by_asin) :
                    returns_by_asin[i].ReturnReason \in Raised
        THEN [status |-> "IndexError", returns_by_asin |-> <<>>, sales_by_asin |-> <<>>,
              merged |-> <<>>, rows |-> <<>>]
        ELSE [status |-> "ok", returns_by_asin |-> returns_by_asin,
              sales_by_asin |-> sales_by_asin, merged |-> merged,
              rows |-> TR_NLargest(merged, TopReturnsN)]

\* create_top_returns_table(returns_data, sales_data).  An exception of the
\* reducer is caught at line 311: st.error and an empty DataFrame.
CreateTopReturnsTableOf(returns_data, sales_data) ==
    LET returns_by_asin == TR_ReturnsByAsin(returns_data)
        sales_by_asin == TR_SalesByAsin(sales_data)
        merged == TR_Merge(returns_by_asin, sales_by_asin)
    IN  IF returns_data = <<>> \/ sales_data = <<>>
        THEN [status |-> "empty", returns_by_asin |-> <<>>, sales_by_asin |-> <<>>,
              merged |-> <<>>, rows |-> <<>>]
        ELSE IF \E i \in 1..Len(returns_by_asin) :
                    returns_by_asin[i].ReturnReason \in Raised
        THEN [status |-> "error", returns_by_asin |-> <<>>, sales_by_asin |-> <<>>,
              merged |-> <<>>, rows |-> <<>>]
        ELSE [status |-> "ok", returns_by_asin |-> returns_by_asin,
              sales_by_asin |-> sales_by_asin, merged |-> merged,
              rows |-> TR_NLargest(merged, TopReturnsN)]

---------------------------------------------------------------------------
(* returns.py: create_returns_reasons_table                                *)

\* groupby('Return Reason')['Return quantity'].sum().reset_index(): groupby
\* drops the rows whose key is missing (dropna=True) and sorts the keys.
RR_ReasonsSummary(returns) ==
    LET keys == SortedSeq({r.ReturnReason : r \in Range(returns)} \ {NaN}, ReasonLess)
        grp(key) == SelectSeq(returns, LAMBDA r : r.ReturnReason = key)
    IN  [i \in 1..Len(keys) |->
            [ReturnReason |-> keys[i],
             ReturnQuantity |-> SumOver(grp(keys[i]), ReturnQuantityOf)]]

\* create_returns_reasons_table(returns_data): sort_values('Return quantity',
\* ascending=False); rows of equal quantity keep the groupby order.
CreateReturnsReasonsTableOf(returns_data) ==
    IF returns_data = <<>>
    THEN [status |-> "empty", rows |-> <<>>]
    ELSE [status |-> "ok",
          rows |-> StableSort(RR_ReasonsSummary(returns_data),
                              LAMBDA a, b : a.ReturnQuantity > b.ReturnQuantity)]

---------------------------------------------------------------------------
(* returns.py: create_returns_summary_table                                *)
(*                                                                         *)
(* A date cell is [fmt, y, m]: fmt "m/d/y" is a string such as 01/15/24    *)
(* (two-digit year y), fmt "Y-m-d" a string such as 2024-01-15, fmt "nan"  *)
(* a missing cell.                                                         *)

MonthNames == <<"Jan", "Feb", "Mar", "Apr", "May", "Jun",
                "Jul", "Aug", "Sep", "Oct", "Nov", "Dec">>

\* pd.to_datetime(column, format='%m/%d/%y') raises when a cell that is not
\* missing does not match the format.
ToDatetimeRaises(cells) ==
    \E i \in 1..Len(cells) : cells[i].fmt \notin {"m/d/y", "nan"}

\* strptime's %y: 00..68 are 2000..2068, 69..99 are 1969..1999.
ParsedYear(cell) == IF cell.y <= 68 THEN 2000 + cell.y ELSE 1900 + cell.y
ParsedMonth(cell) == cell.m

ReturnRequestDateOf(r) == r.ReturnRequestDate
PurchaseDateOf(r) == r.purchase_date

\* lines 55-66: the rows with a date, as (Year, Month, Return quantity).
RS_SummaryData(data) ==
    LET df == SelectSeq(data, LAMBDA r : r.ReturnRequestDate.fmt # "nan")
    IN  [i \in 1..Len(df) |->
            [Year |-> ParsedYear(df[i].ReturnRequestDate),
             Month |-> ParsedMonth(df[i].ReturnRequestDate),
             ReturnQuantity |-> df[i].ReturnQuantity]]

\* RS_Pivot grouping by the month alone: a cell sums the month over all years.
RS_PivotByMonth(summary_data) ==
    LET years == SortedSeq({r.Year : r \in Range(summary_data)}, <)
        months == SortedSeq({r.Month : r \in Range(summary_data)}, <)
        grp(m) == SelectSeq(summary_data, LAMBDA r : r.Month = m)
    IN  [index |-> years,
         columns |-> months,
         cell |-> [y \in Range(years) |-> [m \in Range(months) |->
                      SumOver(grp(m), ReturnQuantityOf)]]]

\* lines 69-79: groupby(['Year', 'Month']).sum() and the pivot table with
\* fill_value=0: one row per observed year, one column per observed month.
RS_Pivot(summary_data) ==
    LET years == SortedSeq({r.Year : r \in Range(summary_data)}, <)
        months == SortedSeq({r.Month : r \in Range(summary_data)}, <)
        grp(y, m) == SelectSeq(summary_data, LAMBDA r : r.Year = y /\ r.Month = m)
    IN  [index |-> years,
         columns |-> months,
         cell |-> [y \in Range(years) |-> [m \in Range(months) |->
                      IF grp(y, m) = <<>> THEN 0
                      ELSE SumOver(grp(y, m), ReturnQuantityOf)]]]

\* line 86: rename(columns=month_names)
RS_Rename(pivot) ==
    [index |-> pivot.index,
     columns |-> [i \in 1..Len(pivot.columns) |-> MonthNames[pivot.columns[i]]],
     cell |-> [y \in Range(pivot.index) |->
                  [n \in {MonthNames[m] : m \in Range(pivot.columns)} |->
                      pivot.cell[y][CHOOSE m \in Range(pivot.columns) : MonthNames[m] = n]]]]

\* lines 89-91: a column of zeros for each month that is not there yet.
RS_EnsureAllMonths(pivot) ==
    LET missing == SelectSeq(MonthNames, LAMBDA n : n \notin Range(pivot.columns))
    IN  [index |-> pivot.index,
         columns |-> pivot.columns \o missing,
         cell |-> [y \in Range(pivot.index) |->
                      [n \in Range(pivot.columns) \cup Range(missing) |->
                          IF n \in Range(pivot.columns) THEN pivot.cell[y][n] ELSE 0]]]

\* line 94: pivot_table[list(month_names.values())], a KeyError when a
\* requested column is absent.
RS_SelectMonthsRaises(pivot) == \E i \in 1..Len(MonthNames) : MonthNames[i] \notin Range(pivot.columns)
RS_SelectMonths(pivot) ==
    [index |-> pivot.index,
     columns |-> MonthNames,
     cell |-> [y \in Range(pivot.index) |->
                  [n \in Range(MonthNames) |-> pivot.cell[y][n]]]]

\* lines 97-104: the rows of the files Sales_<year>.csv that exist, for the
\* years of the pivot table.
RS_SalesRead(index, sales) ==
    ConcatFiles([i \in 1..Len(sales) |->
                    [Year |-> sales[i].year, quantity |-> sales[i].quantity,
                     purchase_date |-> sales[i].purchase_date]],
                index)

\* lines 106-118: 'Total Units Sold' and 'Return Rate', aligned on the year;
\* a year without sales rows gets NaN.
RS_YearlySales(sales_df, y) ==
    LET rows == SelectSeq(sales_df, LAMBDA r : ParsedYear(r.purchase_date) = y)
    IN  IF rows = <<>> THEN FNaN ELSE FNum(SumOver(rows, QuantityOf))

RS_YearlyReturns(pivot, y) ==
    SeqSum([i \in 1..Len(pivot.columns) |-> pivot.cell[y][pivot.columns[i]]])

\* create_returns_summary_table(data).  Every exception is caught (lines 57
\* and 193): st.error and an empty DataFrame.
CreateReturnsSummaryTableOf(data, sales) ==
    LET Empty(why) == [status |-> why, index |-> <<>>, columns |-> <<>>,
                       cell |-> <<>>, has_sales |-> FALSE,
                       TotalUnitsSold |-> <<>>, ReturnRate |-> <<>>]
        ensured == RS_EnsureAllMonths(RS_Rename(RS_Pivot(RS_SummaryData(data))))
        pivot == RS_SelectMonths(ensured)
        sales_df == RS_SalesRead(pivot.index, sales)
    IN  IF data = <<>> THEN Empty("missing columns")
        ELSE IF ToDatetimeRaises(Column(data, ReturnRequestDateOf))
        THEN Empty("date error")
        ELSE IF RS_SelectMonthsRaises(ensured) THEN Empty("error")
        ELSE IF ToDatetimeRaises(Column(sales_df, PurchaseDateOf)) THEN Empty("error")
        ELSE [status |-> "ok", index |-> pivot.index, columns |-> pivot.columns,
              cell |-> pivot.cell,
              has_sales |-> sales_df # <<>>,
              TotalUnitsSold |-> [y \in Range(pivot.index) |->
                                     RS_YearlySales(sales_df, y)],
              ReturnRate |-> [y \in Range(pivot.index) |->
                                 RatePct(FNum(RS_YearlyReturns(pivot, y)),
                                         RS_YearlySales(sales_df, y))]]

---------------------------------------------------------------------------
(* search_products.py: search_products_page                                *)

\* A missing cell of a column of character strings, and of a SKU list.
NaNStr == <<"NaN">>
NaNList == <<NaNStr>>

\* (asin, year) keys in the order groupby and the outer merge sort them.
KeyLess(a, b) == StrLess(a[1], b[1]) \/ (a[1] = b[1] /\ a[2] < b[2])

\* ', '.join(sorted(set(x))), as the list of the joined SKUs
JoinSortedSet(x) == SortedSeq(Range(x), StrLess)

SkuOf(r) == r.sku
MerchantSKUOf(r) == r.MerchantSKU

\* '-FBA-' and '-'
Marker == <<"-", "F", "B", "A", "-">>
Dash == <<"-">>

\* lines 53-55: sku.replace('-FBA-', '-')
clean_sku_string(s) == Replace(s, Marker, Dash)

\* line 60: [sku.strip() for sku in skus.split(',')]
SkuList(s) ==
    LET parts == Split(s, <<",">>)
    IN  [i \in 1..Len(parts) |-> Strip(parts[i])]

\* lines 63-68: the dictionary after the first n SKUs of the list
RECURSIVE CleanToOriginal(_, _)
CleanToOriginal(sku_list, n) ==
    IF n = 0 THEN [k \in {} |-> <<>>]
    ELSE LET before == CleanToOriginal(sku_list, n - 1)
             clean == clean_sku_string(sku_list[n])
         IN  IF clean \notin DOMAIN before \/ ~Contains(sku_list[n], Marker)
             THEN [k \in DOMAIN before \cup {clean} |->
                      IF k = clean THEN sku_list[n] ELSE before[k]]
             ELSE before

\* get_unique_skus that joins the keys in the order of the dictionary, not
\* sorted.
get_unique_skus_unsorted(s) ==
    LET sku_list == SkuList(s)
        keys == DOMAIN CleanToOriginal(sku_list, Len(sku_list))
        First(k) == CHOOSE i \in 1..Len(sku_list) :
                        /\ clean_sku_string(sku_list[i]) = k
                        /\ \A j \in 1..(i - 1) : clean_sku_string(sku_list[j]) # k
    IN  Join(SortedSeq(keys, LAMBDA a, b : First(a) < First(b)), <<",", " ">>)

\* get_unique_skus that does not clean: the distinct SKUs as they were passed.
get_unique_skus_uncleaned(s) ==
    Join(SortedSeq(Range(SkuList(s)), StrLess), <<",", " ">>)

\* lines 57-71: ', '.join(sorted(clean_to_original.keys()))
get_unique_skus(s) ==
    LET sku_list == SkuList(s)
        clean_to_original == CleanToOriginal(sku_list, Len(sku_list))
    IN  Join(SortedSeq(DOMAIN clean_to_original, StrLess), <<",", " ">>)

\* lines 81-98: the yearly files that exist, each with its 'year' column.
SP_LoadSales(sales) ==
    LET all == ConcatFiles([i \in 1..Len(sales) |->
                  [Year |-> sales[i].year, asin |-> sales[i].asin,
                   sku |-> sales[i].sku, quantity |-> sales[i].quantity]], FileYears)
    IN  [i \in 1..Len(all) |->
            [asin |-> all[i].asin, sku |-> all[i].sku,
             quantity |-> all[i].quantity, year |-> all[i].Year]]

SP_LoadReturns(returns) ==
    LET all == ConcatFiles(returns, FileYears)
    IN  [i \in 1..Len(all) |->
            [ASIN |-> all[i].ASIN, MerchantSKU |-> all[i].MerchantSKU,
             ReturnQuantity |-> all[i].ReturnQuantity,
             ReturnReason |-> all[i].ReturnReason, year |-> all[i].Year]]

\* lines 100-125: exact ASIN match first, else the ASINs of the rows whose SKU
\* contains the query; both compared in upper case.
SP_MatchingAsins(sales_data, returns_data, query) ==
    LET q == Upper(query)
        exact == {r.asin : r \in {x \in Range(sales_data) : Upper(x.asin) = q}}
                 \cup {r.ASIN : r \in {x \in Range(returns_data) : Upper(x.ASIN) = q}}
        by_sku == {r.asin : r \in {x \in Range(sales_data) : Contains(Upper(x.sku), q)}}
                  \cup {r.ASIN : r \in {x \in Range(returns_data) :
                                           Contains(Upper(x.MerchantSKU), q)}}
    IN  IF exact # {} THEN exact ELSE by_sku

\* lines 129-132
SP_SalesSummary(sales_filtered) ==
    LET keys == SortedSeq({<<r.asin, r.year>> : r \in Range(sales_filtered)}, KeyLess)
        grp(key) == SelectSeq(sales_filtered, LAMBDA r : <<r.asin, r.year>> = key)
    IN  [i \in 1..Len(keys) |->
            [asin |-> keys[i][1], year |-> keys[i][2],
             sku |-> JoinSortedSet(Column(grp(keys[i]), SkuOf)),
             quantity |-> SumOver(grp(keys[i]), QuantityOf)]]

\* lines 135-139
SP_ReturnsSummary(returns_filtered) ==
    LET keys == SortedSeq({<<r.ASIN, r.year>> : r \in Range(returns_filtered)}, KeyLess)
        grp(key) == SelectSeq(returns_filtered, LAMBDA r : <<r.ASIN, r.year>> = key)
    IN  [i \in 1..Len(keys) |->
            [ASIN |-> keys[i][1], year |-> keys[i][2],
             MerchantSKU |-> JoinSortedSet(Column(grp(keys[i]), MerchantSKUOf)),
             ReturnQuantity |-> SumOver(grp(keys[i]), ReturnQuantityOf),
             ReturnReason |-> ModeIloc0(Column(grp(keys[i]), ReturnReasonOf))]]

\* SP_Merge with how='left' in place of how='outer'.
SP_MergeLeft(sales_summary, returns_summary) ==
    [i \in 1..Len(sales_summary) |->
        LET l == sales_summary[i]
            m == SelectSeq(returns_summary,
                           LAMBDA r : <<r.ASIN, r.year>> = <<l.asin, l.year>>)
        IN  [asin |-> l.asin,
             ASIN |-> IF m = <<>> THEN NaNStr ELSE m[1].ASIN,
             year |-> l.year,
             sku |-> l.sku,
             quantity |-> FNum(l.quantity),
             MerchantSKU |-> IF m = <<>> THEN NaNList ELSE m[1].MerchantSKU,
             ReturnQuantity |-> IF m = <<>> THEN FNaN ELSE FNum(m[1].ReturnQuantity),
             ReturnReason |-> IF m = <<>> THEN NaN ELSE m[1].ReturnReason]]

\* lines 142-148: the outer merge on (asin, year) = (ASIN, year).  Each side
\* has one row per key; the keys of the result are sorted.
SP_Merge(sales_summary, returns_summary) ==
    LET keys == SortedSeq({<<r.asin, r.year>> : r \in Range(sales_summary)}
                          \cup {<<r.ASIN, r.year>> : r \in Range(returns_summary)},
                          KeyLess)
    IN  [i \in 1..Len(keys) |->
            LET l == SelectSeq(sales_summary, LAMBDA r : <<r.asin, r.year>> = keys[i])
                m == SelectSeq(returns_summary, LAMBDA r : <<r.ASIN, r.year>> = keys[i])
            IN  [asin |-> IF l = <<>> THEN NaNStr ELSE l[1].asin,
                 ASIN |-> IF m = <<>> THEN NaNStr ELSE m[1].ASIN,
                 year |-> keys[i][2],
                 sku |-> IF l = <<>> THEN NaNList ELSE l[1].sku,
                 quantity |-> IF l = <<>> THEN FNaN ELSE FNum(l[1].quantity),
                 MerchantSKU |-> IF m = <<>> THEN NaNList ELSE m[1].MerchantSKU,
                 ReturnQuantity |-> IF m = <<>> THEN FNaN ELSE FNum(m[1].ReturnQuantity),
                 ReturnReason |-> IF m = <<>> THEN NaN ELSE m[1].ReturnReason]]

\* lines 151-164: fillna, the 'SKUs' column and the 'Return Rate' column.
SP_CleanUp(merged) ==
    [i \in 1..Len(merged) |->
        LET r == merged[i]
        IN  [asin |-> r.asin, ASIN |-> r.ASIN, year |-> r.year,
             sku |-> r.sku, MerchantSKU |-> r.MerchantSKU,
             quantity |-> FillNa0(r.quantity),
             ReturnQuantity |-> FillNa0(r.ReturnQuantity),
             ReturnReason |-> IF r.ReturnReason = NaN THEN "No returns"
                              ELSE r.ReturnReason,
             SKUs |-> IF r.sku # NaNList THEN r.sku ELSE r.MerchantSKU,
             ReturnRate |-> RatePct(FillNa0(r.ReturnQuantity), FillNa0(r.quantity))]]

\* lines 167-197: the display table of one year.
SP_Display(merged_data, y) ==
    LET data == SelectSeq(merged_data, LAMBDA r : r.year = y)
    IN  [i \in 1..Len(data) |->
            [ASIN |-> data[i].asin, SKUs |-> data[i].SKUs,
             UnitsSold |-> data[i].quantity.v, Returns |-> data[i].ReturnQuantity.v,
             ReturnRate |-> data[i].ReturnRate,
             TopReturnReason |-> data[i].ReturnReason]]

UnitsSoldOf(r) == r.UnitsSold
ReturnsOf(r) == r.Returns

\* lines 212-227: (total_returns / total_units * 100) if total_units > 0 else 0
SP_TotalRate(display) ==
    IF SumOver(display, UnitsSoldOf) > 0
    THEN RatePct(FNum(SumOver(display, ReturnsOf)), FNum(SumOver(display, UnitsSoldOf)))
    ELSE FNum(0)

\* search_products_page with the query typed in.  Nothing catches an
\* exception here: a missing column (KeyError at line 104 or 105 when one side
\* has no yearly file at all) and a raising reducer (IndexError) end the run.
SearchProductsPageOf(sales, returns, query) ==
    LET Without(why) == [status |-> why, query |-> query, sales_summary |-> <<>>,
                         returns_summary |-> <<>>, merged_data |-> <<>>,
                         display |-> <<>>, return_rate |-> <<>>]
        sales_data == SP_LoadSales(sales)
        returns_data == SP_LoadReturns(returns)
        asins == SP_MatchingAsins(sales_data, returns_data, query)
        sales_filtered == SelectSeq(sales_data, LAMBDA r : r.asin \in asins)
        returns_filtered == SelectSeq(returns_data, LAMBDA r : r.ASIN \in asins)
        sales_summary == SP_SalesSummary(sales_filtered)
        returns_summary == SP_ReturnsSummary(returns_filtered)
        merged_data == SP_CleanUp(SP_Merge(sales_summary, returns_summary))
        display == [i \in 1..Len(FileYears) |-> SP_Display(merged_data, FileYears[i])]
    IN  IF query = <<>> THEN Without("no query")
        ELSE IF sales_data = <<>> \/ returns_data = <<>> THEN Without("KeyError")
        ELSE IF sales_filtered = <<>> /\ returns_filtered = <<>> THEN Without("not found")
        ELSE IF \E i \in 1..Len(returns_summary) :
                    returns_summary[i].ReturnReason \in Raised
        THEN Without("IndexError")
        ELSE [status |-> "ok", query |-> query, sales_summary |-> sales_summary,
              returns_summary |-> returns_summary, merged_data |-> merged_data,
              display |-> display,
              return_rate |-> [i \in 1..Len(FileYears) |-> SP_TotalRate(display[i])]]

---------------------------------------------------------------------------
(* The rows the sources of a run may hold.  A script run reads the files   *)
(* of the selected page only, so the model fills those files and leaves    *)
(* the others empty.                                                       *)

Pages == {"Home", "Search", "Top Sellers"}

\* mm/dd/yy in January of the year y
January(y) == [fmt |-> "m/d/y", y |-> y - 2000, m |-> 1]

\* (ASIN, SKU, year) of the rows of the yearly csv files
CsvKeys == {<<<<"B", "1">>, <<"S", "1">>, 2024>>, <<<<"B", "1">>, <<"S", "2">>, 2024>>,
            <<<<"B", "1">>, <<"S", "1">>, 2025>>, <<<<"B", "2">>, <<"S", "2">>, 2024>>}

CsvReturnRows ==
    {[ASIN |-> key[1], MerchantSKU |-> key[2], ReturnQuantity |-> n,
      ReturnReason |-> why, Year |-> key[3], ReturnRequestDate |-> January(key[3])] :
        key \in CsvKeys, n \in ReturnQtys, why \in Reasons \cup {NaN}}

CsvSaleRows ==
    {[asin |-> key[1], sku |-> key[2], quantity |-> n, year |-> key[3],
      purchase_date |-> January(key[3])] :
        key \in CsvKeys, n \in SaleQtys}

TsvReturnRows ==
    {[ASIN |-> <<"B", "1">>, MerchantSKU |-> k, ReturnQuantity |-> n,
      ReturnReason |-> why] :
        k \in SKUs, n \in ReturnQtys, why \in Reasons \cup {NaN}}

TxtSaleRows ==
    {[asin |-> asin, sku |-> k, quantity |-> n] :
        asin \in ASINs, k \in SKUs, n \in SaleQtys}

\* What the user may type in the Search page: an ASIN in lower case, a SKU
\* fragment in lower case, a text that matches nothing, nothing.
Queries == {<<"b", "1">>, <<"s", "2">>, <<"X">>, <<>>}

---------------------------------------------------------------------------
(* The state machine: one script run of the selected page.                 *)

\* The yearly returns files of a run of the cache.
ReturnsFiles == {"Returns_2024.csv", "Returns_2025.csv"}

AuxInit ==
    /\ ranking_table = <<>>
    /\ ranking_result = NotRun
    /\ skus = <<>>
    /\ unique_skus = NotRun
    /\ sku = <<>>
    /\ clean_sku = NotRun
    /\ disk = [f \in ReturnsFiles |-> 0]
    /\ load_data_cache = <<>>
    /\ load_all_cache = <<>>
    /\ loaded = NotRun
    /\ session_state = <<>>
    /\ show_filters = FALSE
    /\ on_screen = {}
    /\ last_rerun = [click |-> "none", before |-> 1]
    /\ reruns = 0

Init ==
    /\ AuxInit
    /\ selected = "Home"
    /\ pc = "menu"
    /\ returns_csv = <<>>
    /\ sales_csv = <<>>
    /\ returns_tsv = <<>>
    /\ sales_txt = <<>>
    /\ search_query = <<>>
    /\ returns_summary_table = NotRun
    /\ top_returns_table = NotRun
    /\ returns_reasons_table = NotRun
    /\ search_result = NotRun
    /\ top_sellers_table = NotRun

outputs == <<returns_summary_table, top_returns_table, returns_reasons_table,
             search_result, top_sellers_table>>
files == <<returns_csv, sales_csv, returns_tsv, sales_txt>>

\* The sidebar menu of returns.py, lines 335-372.
OptionMenu ==
    /\ pc = "menu"
    /\ \E p \in Pages : selected' = p
    /\ pc' = "files"
    /\ UNCHANGED <<files, search_query, outputs>>
    /\ UNCHANGED aux

WriteReturnsCsv ==
    /\ pc = "files" /\ selected \in {"Home", "Search"}
    /\ Len(returns_csv) < MaxReturns
    /\ \E r \in CsvReturnRows : returns_csv' = Append(returns_csv, r)
    /\ UNCHANGED <<selected, pc, sales_csv, returns_tsv, sales_txt, search_query, outputs>>
    /\ UNCHANGED aux

WriteSalesCsv ==
    /\ pc = "files" /\ selected \in {"Home", "Search"}
    /\ Len(sales_csv) < MaxSales
    /\ \E r \in CsvSaleRows : sales_csv' = Append(sales_csv, r)
    /\ UNCHANGED <<selected, pc, returns_csv, returns_tsv, sales_txt, search_query, outputs>>
    /\ UNCHANGED aux

WriteReturnsTsv ==
    /\ pc = "files" /\ selected = "Top Sellers"
    /\ Len(returns_tsv) < MaxReturns2024
    /\ \E r \in TsvReturnRows : returns_tsv' = Append(returns_tsv, r)
    /\ UNCHANGED <<selected, pc, returns_csv, sales_csv, sales_txt, search_query, outputs>>
    /\ UNCHANGED aux

WriteSalesTxt ==
    /\ pc = "files" /\ selected = "Top Sellers"
    /\ Len(sales_txt) < MaxSales
    /\ \E r \in TxtSaleRows : sales_txt' = Append(sales_txt, r)
    /\ UNCHANGED <<selected, pc, returns_csv, sales_csv, returns_tsv, search_query, outputs>>
    /\ UNCHANGED aux

\* returns.py lines 342-345
CreateReturnsSummaryTable ==
    /\ pc = "files" /\ selected = "Home"
    /\ returns_summary_table' =
           CreateReturnsSummaryTableOf(LoadAllReturnsData(returns_csv), sales_csv)
    /\ pc' = "top_returns"
    /\ UNCHANGED <<selected, files, search_query, top_returns_table,
                   returns_reasons_table, search_result, top_sellers_table>>
    /\ UNCHANGED aux

\* returns.py lines 348-352
CreateTopReturnsTable ==
    /\ pc = "top_returns"
    /\ top_returns_table' =
           CreateTopReturnsTableOf(LoadPast12Months(returns_csv),
               LoadPast12Months([i \in 1..Len(sales_csv) |->
                   [Year |-> sales_csv[i].year, asin |-> sales_csv[i].asin,
                    sku |-> sales_csv[i].sku, quantity |-> sales_csv[i].quantity]]))
    /\ pc' = "reasons"
    /\ UNCHANGED <<selected, files, search_query, returns_summary_table,
                   returns_reasons_table, search_result, top_sellers_table>>
    /\ UNCHANGED aux

\* returns.py line 360
CreateReturnsReasonsTable ==
    /\ pc = "reasons"
    /\ returns_reasons_table' =
           CreateReturnsReasonsTableOf(LoadPast12Months(returns_csv))
    /\ pc' = "done"
    /\ UNCHANGED <<selected, files, search_query, returns_summary_table,
                   top_returns_table, search_result, top_sellers_table>>
    /\ UNCHANGED aux

\* returns.py line 366
SearchProductsPage ==
    /\ pc = "files" /\ selected = "Search"
    /\ \E q \in Queries :
          /\ search_query' = q
          /\ search_result' = SearchProductsPageOf(sales_csv, returns_csv, q)
    /\ pc' = "done"
    /\ UNCHANGED <<selected, files, returns_summary_table, top_returns_table,
                   returns_reasons_table, top_sellers_table>>
    /\ UNCHANGED aux

\* returns.py line 369, top_sellers_page
CreateTopSellersTable ==
    /\ pc = "files" /\ selected = "Top Sellers"
    /\ top_sellers_table' = TS_CreateTopSellersTable(sales_txt, returns_tsv)
    /\ pc' = "done"
    /\ UNCHANGED <<selected, files, search_query, returns_summary_table,
                   top_returns_table, returns_reasons_table, search_result>>
    /\ UNCHANGED aux

\* The rows of a summary-table run: dates in the format of the code, in
\* another format, and missing; the rest of the row is fixed.
DateCells ==
    {[fmt |-> "m/d/y", y |-> y, m |-> m] : y \in {24, 25}, m \in {1, 12}}
    \cup {[fmt |-> "nan", y |-> 0, m |-> 0], [fmt |-> "Y-m-d", y |-> 2024, m |-> 1]}

DatedReturnRows ==
    {[ASIN |-> <<"B", "1">>, MerchantSKU |-> <<"S", "1">>, ReturnQuantity |-> n,
      ReturnReason |-> "DEFECTIVE",
      Year |-> IF d.fmt = "m/d/y" THEN 2000 + d.y ELSE 2024,
      ReturnRequestDate |-> d] :
        n \in ReturnQtys, d \in DateCells}

DatedSaleRows ==
    {[asin |-> <<"B", "1">>, sku |-> <<"S", "1">>, quantity |-> n, year |-> y,
      purchase_date |-> January(y)] :
        n \in {3}, y \in {2024, 2025}}

WriteDatedReturnsCsv ==
    /\ pc = "files" /\ selected = "Home"
    /\ Len(returns_csv) < MaxDated
    /\ \E r \in DatedReturnRows : returns_csv' = Append(returns_csv, r)
    /\ UNCHANGED <<selected, pc, sales_csv, returns_tsv, sales_txt, search_query, outputs>>
    /\ UNCHANGED aux

WriteDatedSalesCsv ==
    /\ pc = "files" /\ selected = "Home"
    /\ Len(sales_csv) < MaxSales
    /\ \E r \in DatedSaleRows : sales_csv' = Append(sales_csv, r)
    /\ UNCHANGED <<selected, pc, returns_csv, returns_tsv, sales_txt, search_query, outputs>>
    /\ UNCHANGED aux

Next ==
    \/ OptionMenu
    \/ WriteReturnsCsv
    \/ WriteSalesCsv
    \/ WriteReturnsTsv
    \/ WriteSalesTxt
    \/ CreateReturnsSummaryTable
    \/ CreateTopReturnsTable
    \/ CreateReturnsReasonsTable
    \/ SearchProductsPage
    \/ CreateTopSellersTable

Spec == Init /\ [][Next]_vars

\* The summary table over dated rows.  The menu starts on Home
\* (default_index=0), so the first script run is a Home run.
InitSummary ==
    /\ AuxInit
    /\ selected = "Home"
    /\ pc = "files"
    /\ returns_csv = <<>>
    /\ sales_csv = <<>>
    /\ returns_tsv = <<>>
    /\ sales_txt = <<>>
    /\ search_query = <<>>
    /\ returns_summary_table = NotRun
    /\ top_returns_table = NotRun
    /\ returns_reasons_table = NotRun
    /\ search_result = NotRun
    /\ top_sellers_table = NotRun

NextSummary ==
    \/ WriteDatedReturnsCsv
    \/ WriteDatedSalesCsv
    \/ CreateReturnsSummaryTable

SpecSummary == InitSummary /\ [][NextSummary]_vars

---------------------------------------------------------------------------
(* A Home run over rows that make the steps of the table builders fail: a  *)
(* date in another format, a missing date, a missing reason.               *)

FaultyReturnRows ==
    {[ASIN |-> <<"B", "1">>, MerchantSKU |-> <<"S", "1">>, ReturnQuantity |-> 1,
      ReturnReason |-> why, Year |-> CurrentYear, ReturnRequestDate |-> d] :
        why \in {"DEFECTIVE", NaN},
        d \in {January(CurrentYear), [fmt |-> "nan", y |-> 0, m |-> 0],
               [fmt |-> "Y-m-d", y |-> CurrentYear, m |-> 1]}}

WriteFaultyReturnsCsv ==
    /\ pc = "files" /\ selected = "Home"
    /\ Len(returns_csv) < MaxDated
    /\ \E r \in FaultyReturnRows : returns_csv' = Append(returns_csv, r)
    /\ UNCHANGED <<selected, pc, sales_csv, returns_tsv, sales_txt, search_query, outputs>>
    /\ UNCHANGED aux

NextFaults ==
    \/ WriteFaultyReturnsCsv
    \/ WriteDatedSalesCsv
    \/ CreateReturnsSummaryTable
    \/ CreateTopReturnsTable
    \/ CreateReturnsReasonsTable

SpecFaults == InitSummary /\ [][NextFaults]_vars

---------------------------------------------------------------------------
(* The top-N ranking on its own.  The reports call nlargest with N = 50    *)
(* and N = 500; here it is applied with a small n to a small merged table, *)
(* so that the cut at n and the equal keys at the cut occur.  A row        *)
(* carries its index label, as a DataFrame row does.                       *)

MergedRows(i) ==
    {[index |-> i, ReturnQuantity |-> q, TotalSold |-> t] : q \in {1, 2}, t \in {0, 3}}

\* merged_data before the ranking (returns.py line 284, top_sellers.py line 80)
MergedData ==
    /\ ranking_result = NotRun
    /\ Len(ranking_table) < MaxRanked
    /\ \E r \in MergedRows(Len(ranking_table) + 1) :
          ranking_table' = Append(ranking_table, r)
    /\ UNCHANGED <<page, ranking_result, skuVars, cacheVars, filterVars>>

\* returns.py line 287
TopReturnsNLargest ==
    /\ ranking_result = NotRun
    /\ \E n \in 1..(MaxRanked + 1) :
          ranking_result' = [status |-> "ok", key |-> "Return quantity", n |-> n,
                             rows |-> TR_NLargest(ranking_table, n),
                             reruns |-> 0, previous |-> <<>>]
    /\ UNCHANGED <<page, ranking_table, skuVars, cacheVars, filterVars>>

\* top_sellers.py line 83
TopSellersNLargest ==
    /\ ranking_result = NotRun
    /\ \E n \in 1..(MaxRanked + 1) :
          ranking_result' = [status |-> "ok", key |-> "Total Sold 2024", n |-> n,
                             rows |-> TS_NLargest(ranking_table, n),
                             reruns |-> 0, previous |-> <<>>]
    /\ UNCHANGED <<page, ranking_table, skuVars, cacheVars, filterVars>>

\* The script runs again on the unchanged table.
RerunNLargest ==
    /\ ranking_result.status = "ok"
    /\ ranking_result.reruns = 0
    /\ ranking_result' =
           [ranking_result EXCEPT
               !.previous = ranking_result.rows,
               !.reruns = 1,
               !.rows = IF ranking_result.key = "Return quantity"
                        THEN TR_NLargest(ranking_table, ranking_result.n)
                        ELSE TS_NLargest(ranking_table, ranking_result.n)]
    /\ UNCHANGED <<page, ranking_table, skuVars, cacheVars, filterVars>>

NextRanking ==
    \/ MergedData
    \/ TopReturnsNLargest
    \/ TopSellersNLargest
    \/ RerunNLargest

SpecRanking == Init /\ [][NextRanking]_vars

---------------------------------------------------------------------------
(* The SKU helpers of search_products.py on their own.                     *)

\* SKUs as they may stand in a comma-separated list: with the marker, without
\* it, with blanks around, with two markers that share a dash, another SKU,
\* nothing.
SkuTexts ==
    {<<"S", "-", "F", "B", "A", "-", "1">>,
     <<"S", "-", "1">>,
     <<" ", "S", "-", "1", " ">>,
     <<"S", "-", "F", "B", "A", "-", "F", "B", "A", "-", "1">>,
     <<"B", "-", "F", "B", "A", "-", "1">>,
     <<>>}

Commas(s) == Cardinality({i \in 1..Len(s) : s[i] = ","})

\* The caller's list grows by one SKU.
AddSku ==
    /\ unique_skus = NotRun
    /\ Commas(skus) < MaxSkus - 1
    /\ \E t \in SkuTexts :
          \/ skus' = skus \o <<",">> \o t
          \/ skus = <<>> /\ skus' = t
    /\ UNCHANGED <<page, ranking, unique_skus, sku, clean_sku, cacheVars, filterVars>>

\* lines 57-71
GetUniqueSkus ==
    /\ unique_skus = NotRun
    /\ unique_skus' = [status |-> "ok", value |-> get_unique_skus(skus)]
    /\ UNCHANGED <<page, ranking, skus, sku, clean_sku, cacheVars, filterVars>>

\* lines 53-55
CleanSkuString ==
    /\ clean_sku = NotRun
    /\ \E t \in SkuTexts :
          /\ sku' = t
          /\ clean_sku' = [status |-> "ok", value |-> clean_sku_string(t), times |-> 1]
    /\ UNCHANGED <<page, ranking, skus, unique_skus, cacheVars, filterVars>>

\* clean_sku_string applied to its own result
CleanSkuStringAgain ==
    /\ clean_sku.status = "ok"
    /\ clean_sku.times = 1
    /\ sku' = clean_sku.value
    /\ clean_sku' = [status |-> "ok", value |-> clean_sku_string(clean_sku.value),
                     times |-> 2]
    /\ UNCHANGED <<page, ranking, skus, unique_skus, cacheVars, filterVars>>

NextSkus ==
    \/ AddSku
    \/ GetUniqueSkus
    \/ CleanSkuString
    \/ CleanSkuStringAgain

SpecSkus == Init /\ [][NextSkus]_vars

---------------------------------------------------------------------------
(* The cached loaders of returns.py.  @st.cache_data keeps the value a     *)
(* function returned for its arguments and returns it on the next call     *)
(* with the same arguments without running the function; no loader gives   *)
(* it a ttl, and the files are not part of the key.  A file is modelled by *)
(* the revision of its content.                                            *)

\* A cache with the value of key k: a hit returns the entry.
Cached(cache, k, value) ==
    IF k \in DOMAIN cache THEN cache
    ELSE [x \in DOMAIN cache \cup {k} |-> IF x = k THEN value ELSE cache[x]]

\* lines 11-17: load_data(file_path, delimiter) through its cache
LoadDataValue(cache, f) == Cached(cache, f, disk[f])[f]

\* The cache of load_data after load_all_returns_data has loaded every file.
LoadDataCacheAfterAll ==
    [f \in DOMAIN load_data_cache \cup ReturnsFiles |->
        IF f \in DOMAIN load_data_cache THEN load_data_cache[f] ELSE disk[f]]

\* A returns file is written again on disk.
ModifyFile ==
    /\ \E f \in ReturnsFiles :
          /\ disk[f] < MaxEdits
          /\ disk' = [disk EXCEPT ![f] = @ + 1]
    /\ UNCHANGED <<page, ranking, skuVars, load_data_cache, load_all_cache, loaded, filterVars>>

\* lines 11-17
LoadData ==
    /\ \E f \in ReturnsFiles :
          /\ load_data_cache' = Cached(load_data_cache, f, disk[f])
          /\ loaded' = [status |-> "ok", function |-> "load_data", key |-> f,
                        value |-> LoadDataValue(load_data_cache, f),
                        on_disk |-> disk[f]]
    /\ UNCHANGED <<page, ranking, skuVars, disk, load_all_cache, filterVars>>

\* lines 25-41: a miss runs the function, which calls load_data for every
\* file; a hit runs nothing.
CachedLoadAllReturnsData ==
    /\ load_all_cache' =
           Cached(load_all_cache, "()",
                  [f \in ReturnsFiles |-> LoadDataValue(load_data_cache, f)])
    /\ load_data_cache' =
           IF "()" \in DOMAIN load_all_cache THEN load_data_cache
           ELSE LoadDataCacheAfterAll
    /\ loaded' = [status |-> "ok", function |-> "load_all_returns_data", key |-> "()",
                  value |-> load_all_cache'["()"],
                  on_disk |-> disk]
    /\ UNCHANGED <<page, ranking, skuVars, disk, filterVars>>

NextCache ==
    \/ ModifyFile
    \/ LoadData
    \/ CachedLoadAllReturnsData

SpecCache == Init /\ [][NextCache]_vars

---------------------------------------------------------------------------
(* test.py: the advanced filters of the year-on-year page.  A widget the   *)
(* user acts on starts a run of main(); a button returns True in the run   *)
(* its click started, when that run calls it.  What a run rendered stays   *)
(* on the screen until the next run.                                       *)

MaxFilters == 3

\* lines 112-113: the count the run works with
NumFiltersAtStart ==
    IF "num_filters" \in DOMAIN session_state THEN session_state.num_filters ELSE 1

\* lines 116-118: if st.button('Add Filter') and num_filters < 3
AfterAddFilter(n, click) ==
    IF click = "Add Filter" /\ n < MaxFilters THEN n + 1 ELSE n

\* lines 141-143: if num_filters > 1: if st.button('Remove Last Filter')
AfterRemoveFilter(n, click) ==
    IF n > 1 /\ click = "Remove Last Filter" THEN n - 1 ELSE n

\* lines 110-143 of one run of main() with the advanced filters shown
RunFilters(click) ==
    LET n == AfterAddFilter(NumFiltersAtStart, click)
    IN  /\ session_state' = [num_filters |-> AfterRemoveFilter(n, click)]
        /\ on_screen' = {"Add Filter"} \cup (IF n > 1 THEN {"Remove Last Filter"} ELSE {})
        /\ last_rerun' = [click |-> click, before |-> NumFiltersAtStart]

\* The user ticks or unticks 'Show Advanced Filters' (line 97).
ToggleShowFilters ==
    /\ reruns < MaxReruns
    /\ reruns' = reruns + 1
    /\ show_filters' = ~show_filters
    /\ IF show_filters'
       THEN RunFilters("none")
       ELSE /\ on_screen' = {}
            /\ last_rerun' = [click |-> "none", before |-> NumFiltersAtStart]
            /\ UNCHANGED session_state
    /\ UNCHANGED <<page, ranking, skuVars, cacheVars>>

\* The user clicks a button that is on the screen.
ClickButton ==
    /\ reruns < MaxReruns
    /\ show_filters
    /\ reruns' = reruns + 1
    /\ \E b \in on_screen : RunFilters(b)
    /\ UNCHANGED <<page, ranking, skuVars, cacheVars, show_filters>>

\* Another widget of the page starts the run (the search box, a filter value).
RerunPage ==
    /\ reruns < MaxReruns
    /\ show_filters
    /\ reruns' = reruns + 1
    /\ RunFilters("none")
    /\ UNCHANGED <<page, ranking, skuVars, cacheVars, show_filters>>

NextFilters ==
    \/ ToggleShowFilters
    \/ ClickButton
    \/ RerunPage

SpecFilters == Init /\ [][NextFilters]_vars

---------------------------------------------------------------------------
(* Properties.                                                             *)

Ok(t) == t.status = "ok"

\* The sources as the Home page tables receive them.
HomeReturns == LoadPast12Months(returns_csv)
HomeSales == SelectSeq(sales_csv, LAMBDA r : r.year \in {CurrentYear, CurrentYear - 1})

\* The key of a row of the Search page's merged table.
SearchKey(r) == IF r.asin # NaNStr THEN <<r.asin, r.year>> ELSE <<r.ASIN, r.year>>
SearchSalesKeys == {<<r.asin, r.year>> : r \in Range(search_result.sales_summary)}
SearchReturnsKeys == {<<r.ASIN, r.year>> : r \in Range(search_result.returns_summary)}

IsRate(c) == c.k = "num" /\ c.v >= 0
NumOr0(c) == IF c.k = "num" THEN c.v ELSE 0
TotalReturnsOf(r) == NumOr0(r.TotalReturns)
FloatQuantityOf(r) == NumOr0(r.quantity)
FloatReturnQuantityOf(r) == NumOr0(r.ReturnQuantity)
FloatUnitsSoldOf(r) == NumOr0(r.UnitsSold)
RowsWith(rows, P(_)) == {i \in 1..Len(rows) : P(rows[i])}

---------------------------------------------------------------------------
\* C1: in every reconciled row (Search page, top sellers, top returns) the
\* return rate is a finite number >= 0, and it is 0 when the units sold are 0
\* or the entity has no sales.
C1_ReturnRateFinite ==
    /\ Ok(search_result) =>
          \A i \in 1..Len(search_result.merged_data) :
              LET r == search_result.merged_data[i]
              IN  /\ IsRate(r.ReturnRate)
                  /\ NumOr0(r.quantity) = 0 => r.ReturnRate = FNum(0)
    /\ Ok(top_sellers_table) =>
          \A i \in 1..Len(top_sellers_table.rows) :
              LET r == top_sellers_table.rows[i]
              IN  /\ IsRate(r.ReturnRate)
                  /\ r.TotalSold = 0 => r.ReturnRate = FNum(0)
    /\ Ok(top_returns_table) =>
          \A i \in 1..Len(top_returns_table.rows) :
              LET r == top_returns_table.rows[i]
              IN  /\ IsRate(r.ReturnRate)
                  /\ NumOr0(r.UnitsSold) = 0 => r.ReturnRate = FNum(0)

---------------------------------------------------------------------------
---------------------------------------------------------------------------
---------------------------------------------------------------------------
\* C4: a joined row of an entity present on one side only has 0 in the
\* missing side's quantity and the "No returns" sentinel as its reason, and
\* no joined row holds a missing quantity or reason.
C4_MissingSideFilled ==
    /\ Ok(search_result) =>
          \A i \in 1..Len(search_result.merged_data) :
              LET r == search_result.merged_data[i]
              IN  /\ r.quantity.k = "num" /\ r.ReturnQuantity.k = "num"
                  /\ r.ReturnReason # NaN
                  /\ SearchKey(r) \notin SearchReturnsKeys =>
                        r.ReturnQuantity = FNum(0) /\ r.ReturnReason = "No returns"
                  /\ SearchKey(r) \notin SearchSalesKeys => r.quantity = FNum(0)
    /\ Ok(top_sellers_table) =>
          \A i \in 1..Len(top_sellers_table.merged) :
              LET r == top_sellers_table.merged[i]
              IN  /\ r.TotalReturns.k = "num"
                  /\ r.TopReturnReason # NaN
                  /\ (\A j \in 1..Len(top_sellers_table.returns_by_sku) :
                          top_sellers_table.returns_by_sku[j].SKU # r.SKU) =>
                        /\ r.TotalReturns = FNum(0)
                        /\ r.TopReturnReason \in {"No returns", "No Returns"}
    /\ Ok(top_returns_table) =>
          \A i \in 1..Len(top_returns_table.merged) :
              LET r == top_returns_table.merged[i]
              IN  /\ r.UnitsSold.k = "num"
                  /\ r.TopReturnReason # NaN
                  /\ (\A j \in 1..Len(top_returns_table.sales_by_asin) :
                          top_returns_table.sales_by_asin[j].ASIN # r.ASIN) =>
                        r.UnitsSold = FNum(0)

---------------------------------------------------------------------------
\* C5: in every reconciled row with units sold, the return rate is the return
\* quantity over the units sold x 100 of the entity and period of the row's
\* key: (ASIN, Merchant SKU) over the past 12 months in the top returns
\* table, the year in the summary table, (ASIN, year) in the Search page.
C5_RateOfTheRowsEntity ==
    /\ Ok(top_returns_table) =>
          \A i \in 1..Len(top_returns_table.rows) :
              LET r == top_returns_table.rows[i]
                  ret == SumOver(SelectSeq(HomeReturns, LAMBDA x :
                             x.ASIN = r.ASIN /\ x.MerchantSKU = r.MerchantSKU),
                             ReturnQuantityOf)
                  sold == SumOver(SelectSeq(HomeSales, LAMBDA x :
                             x.asin = r.ASIN /\ x.sku = r.MerchantSKU), QuantityOf)
              IN  sold > 0 => r.ReturnRate = RatePct(FNum(ret), FNum(sold))
    /\ Ok(returns_summary_table) /\ returns_summary_table.has_sales =>
          \A y \in Range(returns_summary_table.index) :
              LET ret == SumOver(SelectSeq(returns_csv, LAMBDA x :
                             x.ReturnRequestDate.fmt = "m/d/y"
                             /\ ParsedYear(x.ReturnRequestDate) = y), ReturnQuantityOf)
                  sold == SumOver(SelectSeq(sales_csv, LAMBDA x :
                             ParsedYear(x.purchase_date) = y), QuantityOf)
              IN  sold > 0 =>
                     returns_summary_table.ReturnRate[y] = RatePct(FNum(ret), FNum(sold))
    /\ Ok(search_result) =>
          \A i \in 1..Len(search_result.merged_data) :
              LET r == search_result.merged_data[i]
                  ret == SumOver(SelectSeq(returns_csv, LAMBDA x :
                             <<x.ASIN, x.Year>> = SearchKey(r)), ReturnQuantityOf)
                  sold == SumOver(SelectSeq(sales_csv, LAMBDA x :
                             <<x.asin, x.year>> = SearchKey(r)), QuantityOf)
              IN  sold > 0 => r.ReturnRate = RatePct(FNum(ret), FNum(sold))

---------------------------------------------------------------------------
(* The groups the three reducers are applied to, each with the reason the  *)
(* aggregate reports for it: <<records of the group, reported reason>>.    *)

ReasonAndQuantity(rows) ==
    [i \in 1..Len(rows) |->
        [ReturnReason |-> rows[i].ReturnReason, ReturnQuantity |-> rows[i].ReturnQuantity]]

ReducedGroups ==
    (IF Ok(top_sellers_table)
     THEN {<<ReasonAndQuantity(SelectSeq(returns_tsv, LAMBDA x : x.MerchantSKU = r.SKU)),
             r.TopReturnReason>> : r \in Range(top_sellers_table.returns_by_sku)}
     ELSE {})
    \cup
    (IF Ok(top_returns_table)
     THEN {<<ReasonAndQuantity(SelectSeq(HomeReturns, LAMBDA x :
                 x.ASIN = r.ASIN /\ x.MerchantSKU = r.MerchantSKU)),
             r.ReturnReason>> : r \in Range(top_returns_table.returns_by_asin)}
     ELSE {})
    \cup
    (IF Ok(search_result)
     THEN {<<ReasonAndQuantity(SelectSeq(ConcatFiles(returns_csv, FileYears), LAMBDA x :
                 x.ASIN = r.ASIN /\ x.Year = r.year)),
             r.ReturnReason>> : r \in Range(search_result.returns_summary)}
     ELSE {})

ReasonsIn(G) == {G[i].ReturnReason : i \in 1..Len(G)} \ {NaN}
RecordsOf(G, w) == Cardinality({i \in 1..Len(G) : G[i].ReturnReason = w})
QuantityOfReason(G, w) ==
    SumOver(SelectSeq(G, LAMBDA x : x.ReturnReason = w), ReturnQuantityOf)
MostFrequent(G) == {w \in ReasonsIn(G) : \A v \in ReasonsIn(G) : RecordsOf(G, v) <= RecordsOf(G, w)}
FirstSeen(G, w) == CHOOSE i \in 1..Len(G) :
                       G[i].ReturnReason = w /\ \A j \in 1..(i - 1) : G[j].ReturnReason # w

---------------------------------------------------------------------------
\* C6 as claimed: the reported reason of every aggregate row is the reason
\* with the highest summed return quantity among the records of its group.
C6_ReasonOfHighestQuantity ==
    \A g \in ReducedGroups :
        /\ g[2] \in ReasonsIn(g[1])
        /\ \A w \in ReasonsIn(g[1]) :
              QuantityOfReason(g[1], w) <= QuantityOfReason(g[1], g[2])

\* C6 as amended: the reported reason of every aggregate row is a reason with
\* the highest number of records in its group; a record counts once,
\* whatever its return quantity.
C6_ReasonOfMostRecords ==
    \A g \in ReducedGroups :
        /\ g[2] \in ReasonsIn(g[1])
        /\ \A w \in ReasonsIn(g[1]) : RecordsOf(g[1], w) <= RecordsOf(g[1], g[2])

\* A group whose reasons differ in their number of records has been reduced.
C6_Witness ==
    \E g \in ReducedGroups :
        \E w \in ReasonsIn(g[1]) : RecordsOf(g[1], w) < RecordsOf(g[1], g[2])

---------------------------------------------------------------------------
\* C7 as claimed: when several reasons tie for the top of a group, the one
\* that comes first in the group's record order is reported.
C7_TieFirstEncountered ==
    \A g \in ReducedGroups :
        Cardinality(MostFrequent(g[1])) >= 2 =>
            /\ g[2] \in MostFrequent(g[1])
            /\ \A w \in MostFrequent(g[1]) : FirstSeen(g[1], g[2]) <= FirstSeen(g[1], w)

\* C7 as amended: when several reasons tie for the top of a group, the one
\* that is smallest in string order is reported, whatever the record order.
C7_TieSmallestReason ==
    \A g \in ReducedGroups :
        Cardinality(MostFrequent(g[1])) >= 2 =>
            /\ g[2] \in MostFrequent(g[1])
            /\ \A w \in MostFrequent(g[1]) \ {g[2]} : ReasonLess(g[2], w)

\* A group with a tie has been reduced and the reported reason is not the
\* tied reason that comes first in the group.
C7_Witness ==
    \E g \in ReducedGroups :
        /\ Cardinality(MostFrequent(g[1])) >= 2
        /\ \E w \in MostFrequent(g[1]) : FirstSeen(g[1], w) < FirstSeen(g[1], g[2])

---------------------------------------------------------------------------
\* C8: the reason reducer yields a value for every group, also for a group
\* whose reasons are all missing: an observed reason or the sentinel; no
\* aggregation ends with the reducer's exception.
C8_ReducerYieldsValue ==
    /\ top_sellers_table.status # "KeyError"
    /\ search_result.status # "IndexError"
    /\ top_returns_table.status # "error"
    /\ \A g \in ReducedGroups :
          g[2] \in ReasonsIn(g[1]) \cup {"No returns", "No Returns"}

---------------------------------------------------------------------------
\* C9: the summary table has exactly the 12 month columns Jan..Dec in
\* calendar order, and in every year row the cell of a month is the sum of
\* the return quantity of the rows of that year and month, 0 when there are
\* none.
C9_DenseMonthlyGrid ==
    Ok(returns_summary_table) =>
        LET t == returns_summary_table
            months == <<"Jan", "Feb", "Mar", "Apr", "May", "Jun",
                        "Jul", "Aug", "Sep", "Oct", "Nov", "Dec">>
            Observed(y, m) == SelectSeq(returns_csv, LAMBDA r :
                                  /\ r.ReturnRequestDate.fmt = "m/d/y"
                                  /\ ParsedYear(r.ReturnRequestDate) = y
                                  /\ r.ReturnRequestDate.m = m)
        IN  /\ t.columns = months
            /\ \A y \in Range(t.index) :
                  /\ DOMAIN t.cell[y] = Range(months)
                  /\ \A m \in 1..12 :
                        t.cell[y][months[m]] = SumOver(Observed(y, m), ReturnQuantityOf)

\* A summary table of two years, with a cell that adds two rows and a cell of
\* a month without rows.
C9_Witness ==
    /\ Ok(returns_summary_table)
    /\ Len(returns_summary_table.index) = 2
    /\ \E y \in Range(returns_summary_table.index) :
          /\ returns_summary_table.cell[y]["Dec"] = 3
          /\ returns_summary_table.cell[y]["Jan"] = 0

---------------------------------------------------------------------------
\* C10: the per-reason return quantities of create_returns_reasons_table add
\* up to the total return quantity of its input table, rows with a missing
\* reason included.
C10_ReasonsConserveQuantity ==
    Ok(returns_reasons_table) =>
        SumOver(returns_reasons_table.rows, ReturnQuantityOf)
            = SumOver(HomeReturns, ReturnQuantityOf)

---------------------------------------------------------------------------
\* C11: nlargest returns exactly min(n, number of rows) rows of the table,
\* these have the largest keys, they are in non-increasing key order, rows
\* with equal keys keep their original relative order, and a rerun on the
\* unchanged table returns the identical rows in the identical order.
RankingKey(r) ==
    IF ranking_result.key = "Return quantity" THEN r.ReturnQuantity ELSE r.TotalSold

C11_TopNRanking ==
    ranking_result.status = "ok" =>
        LET rows == ranking_result.rows
            n == ranking_result.n
        IN  /\ Len(rows) = IF n < Len(ranking_table) THEN n ELSE Len(ranking_table)
            /\ \A i \in 1..Len(rows) : rows[i] \in Range(ranking_table)
            /\ \A i, j \in 1..Len(rows) : i # j => rows[i].index # rows[j].index
            /\ \A r \in Range(ranking_table) \ Range(rows) :
                  \A i \in 1..Len(rows) : RankingKey(r) <= RankingKey(rows[i])
            /\ \A i, j \in 1..Len(rows) :
                  i < j =>
                     /\ RankingKey(rows[i]) >= RankingKey(rows[j])
                     /\ RankingKey(rows[i]) = RankingKey(rows[j])
                           => rows[i].index < rows[j].index
            /\ ranking_result.reruns = 1 => ranking_result.previous = rows

\* A table of three rows has been cut to two and run twice; two rows of
\* equal key are in the result, and a row with the key of the last of them
\* is left out.
C11_Witness ==
    /\ ranking_result.status = "ok"
    /\ ranking_result.reruns = 1
    /\ Len(ranking_table) = 3
    /\ Len(ranking_result.rows) = 2
    /\ RankingKey(ranking_result.rows[1]) = RankingKey(ranking_result.rows[2])
    /\ \E r \in Range(ranking_table) \ Range(ranking_result.rows) :
          RankingKey(r) = RankingKey(ranking_result.rows[2])

---------------------------------------------------------------------------
\* C12: aggregating the sale records by key is additive.  For every split of
\* the sale records of a run into two parts, the totals of the two parts,
\* added key by key, are the totals of the whole; the totals of the whole
\* add up to the quantity of all records (equal rows are summed, not
\* deduplicated), and a key has one row.
RowsAt(s, A) ==
    LET at == SortedSeq(A, <)
    IN  [i \in 1..Len(at) |-> s[at[i]]]

AddTotals(P, Q) ==
    LET At(X, k) == IF \E p \in X : p[1] = k THEN (CHOOSE p \in X : p[1] = k)[2] ELSE 0
    IN  {<<k, At(P, k) + At(Q, k)>> : k \in {p[1] : p \in P \cup Q}}

TS_Totals(t) == {<<<<t[i].SKU, t[i].ASIN>>, t[i].TotalSold>> : i \in 1..Len(t)}
TR_Totals(t) == {<<t[i].ASIN, t[i].UnitsSold>> : i \in 1..Len(t)}
SP_Totals(t) == {<<<<t[i].asin, t[i].year>>, t[i].quantity>> : i \in 1..Len(t)}

\* The sale rows the Search page aggregates: those of the ASINs it matched.
SearchSalesFiltered ==
    SelectSeq(SP_LoadSales(sales_csv), LAMBDA r :
        r.asin \in {x.asin : x \in Range(search_result.sales_summary)})

C12_AggregationAdditive ==
    /\ Ok(top_sellers_table) =>
          LET whole == top_sellers_table.sales_by_sku
              all == 1..Len(sales_txt)
          IN  /\ Cardinality(TS_Totals(whole)) = Len(whole)
              /\ SumOver(whole, TotalSoldOf) = SumOver(sales_txt, QuantityOf)
              /\ \A A \in SUBSET all :
                    AddTotals(TS_Totals(TS_LoadSalesData(RowsAt(sales_txt, A))),
                              TS_Totals(TS_LoadSalesData(RowsAt(sales_txt, all \ A))))
                        = TS_Totals(whole)
    /\ Ok(top_returns_table) =>
          LET whole == top_returns_table.sales_by_asin
              all == 1..Len(HomeSales)
          IN  /\ Cardinality(TR_Totals(whole)) = Len(whole)
              /\ SumOver(whole, LAMBDA r : r.UnitsSold) = SumOver(HomeSales, QuantityOf)
              /\ \A A \in SUBSET all :
                    AddTotals(TR_Totals(TR_SalesByAsin(RowsAt(HomeSales, A))),
                              TR_Totals(TR_SalesByAsin(RowsAt(HomeSales, all \ A))))
                        = TR_Totals(whole)
    /\ Ok(search_result) =>
          LET whole == search_result.sales_summary
              all == 1..Len(SearchSalesFiltered)
          IN  /\ Cardinality(SP_Totals(whole)) = Len(whole)
              /\ SumOver(whole, QuantityOf) = SumOver(SearchSalesFiltered, QuantityOf)
              /\ \A A \in SUBSET all :
                    AddTotals(SP_Totals(SP_SalesSummary(RowsAt(SearchSalesFiltered, A))),
                              SP_Totals(SP_SalesSummary(RowsAt(SearchSalesFiltered, all \ A))))
                        = SP_Totals(whole)

\* A run has aggregated two equal sale rows of one key into one row with the
\* sum of their quantities.
C12_Witness ==
    /\ Ok(top_sellers_table)
    /\ Len(sales_txt) = 2
    /\ sales_txt[1] = sales_txt[2]
    /\ sales_txt[1].quantity = 3
    /\ Len(top_sellers_table.sales_by_sku) = 1
    /\ top_sellers_table.sales_by_sku[1].TotalSold = 6

---------------------------------------------------------------------------
\* C13: a return request date that cannot be parsed excludes its own row
\* only.  Whenever create_returns_summary_table has run on rows of which at
\* least one has a date in the format, it returns the table, and every cell
\* of a year and month of such a row is the sum of the return quantity of
\* the rows with a date in the format of that year and month.
ParsedRows(y, m) ==
    SelectSeq(returns_csv, LAMBDA r :
        /\ r.ReturnRequestDate.fmt = "m/d/y"
        /\ ParsedYear(r.ReturnRequestDate) = y
        /\ ParsedMonth(r.ReturnRequestDate) = m)

C13_DateFailurePerRow ==
    (/\ returns_summary_table # NotRun
     /\ \E i \in 1..Len(returns_csv) : returns_csv[i].ReturnRequestDate.fmt = "m/d/y")
    =>
    /\ Ok(returns_summary_table)
    /\ \A i \in 1..Len(returns_csv) :
          LET d == returns_csv[i].ReturnRequestDate
          IN  d.fmt = "m/d/y" =>
                 /\ ParsedYear(d) \in Range(returns_summary_table.index)
                 /\ returns_summary_table.cell[ParsedYear(d)][MonthNames[ParsedMonth(d)]]
                       = SumOver(ParsedRows(ParsedYear(d), ParsedMonth(d)), ReturnQuantityOf)

---------------------------------------------------------------------------
\* C14: without source files no entry point raises.  The loaders of
\* returns.py give an empty table and the Home tables are returned empty; a
\* Top Sellers run and a Search run with a query that find no sales files or
\* no returns files end without an exception, and with an empty result when
\* both kinds of file are missing.
C14_NoFilesEmptyResult ==
    /\ returns_csv = <<>> =>
          /\ LoadAllReturnsData(returns_csv) = <<>>
          /\ HomeReturns = <<>>
          /\ returns_summary_table.status \in {"none", "missing columns"}
          /\ top_returns_table.status \in {"none", "empty"}
          /\ returns_reasons_table.status \in {"none", "empty"}
    /\ sales_csv = <<>> =>
          /\ HomeSales = <<>>
          /\ top_returns_table.status \in {"none", "empty"}
    /\ (top_sellers_table # NotRun /\ (sales_txt = <<>> \/ returns_tsv = <<>>)) =>
          /\ top_sellers_table.status \notin {"ValueError", "KeyError"}
          /\ (sales_txt = <<>> /\ returns_tsv = <<>>) => top_sellers_table.rows = <<>>
    /\ (search_result # NotRun /\ search_query # <<>>
            /\ (sales_csv = <<>> \/ returns_csv = <<>>)) =>
          /\ search_result.status \notin {"KeyError", "IndexError"}
          /\ (sales_csv = <<>> /\ returns_csv = <<>>) => search_result.merged_data = <<>>

---------------------------------------------------------------------------
\* C15: the table builders of returns.py return an empty table instead of
\* raising.  create_returns_summary_table returns it when the table has no
\* 'Return request date' or 'Return quantity' column and when the dates do
\* not convert; create_top_returns_table returns it when its reducer raises;
\* no builder ends with an exception, and a builder that does not return its
\* table returns an empty one.
AllReasonsMissing ==
    \E r \in Range(HomeReturns) :
        \A x \in Range(HomeReturns) :
            (x.ASIN = r.ASIN /\ x.MerchantSKU = r.MerchantSKU) => x.ReturnReason = NaN

C15_BuildersCatchFaults ==
    /\ returns_summary_table # NotRun =>
          /\ returns_summary_table.status \in {"ok", "missing columns", "date error", "error"}
          /\ returns_csv = <<>> => returns_summary_table.status = "missing columns"
          /\ (\E i \in 1..Len(returns_csv) :
                 returns_csv[i].ReturnRequestDate.fmt \notin {"m/d/y", "nan"})
                => returns_summary_table.status = "date error"
          /\ ~Ok(returns_summary_table) =>
                /\ returns_summary_table.index = <<>>
                /\ returns_summary_table.columns = <<>>
    /\ top_returns_table # NotRun =>
          /\ top_returns_table.status \in {"ok", "empty", "error"}
          /\ (HomeSales # <<>> /\ AllReasonsMissing) => top_returns_table.status = "error"
          /\ ~Ok(top_returns_table) => top_returns_table.rows = <<>>
    /\ returns_reasons_table # NotRun =>
          /\ returns_reasons_table.status \in {"ok", "empty"}
          /\ ~Ok(returns_reasons_table) => returns_reasons_table.rows = <<>>

\* A Home run in which the date conversion and the reducer have both failed
\* and all three builders have returned.
C15_Witness ==
    /\ returns_summary_table.status = "date error"
    /\ top_returns_table.status = "error"
    /\ returns_reasons_table # NotRun
    /\ HomeSales # <<>>
    /\ AllReasonsMissing

---------------------------------------------------------------------------
(* What get_unique_skus was given and what its result lists.               *)

PassedSkus == {Strip(t) : t \in Range(Split(skus, <<",">>))}
ListedSkus == Split(unique_skus.value, <<",", " ">>)

---------------------------------------------------------------------------
(* A marked and an unmarked form of one canonical SKU, both passed.        *)

BothForms ==
    {pair \in PassedSkus \X PassedSkus :
        /\ Contains(pair[1], Marker)
        /\ ~Contains(pair[2], Marker)
        /\ clean_sku_string(pair[1]) = pair[2]}

\* C17 as claimed: when a marked and an unmarked form of one SKU are passed,
\* the unmarked form is a label of the result and the marked form is kept
\* with it: the result can be asked for either spelling.
C17_BothSpellingsKept ==
    unique_skus.status = "ok" =>
        \A pair \in BothForms :
            /\ pair[2] \in Range(ListedSkus)
            /\ pair[1] \in Range(ListedSkus)

\* C17 as amended: when a marked and an unmarked form of one SKU are passed,
\* the result lists the SKU once, under the unmarked form; the marked
\* spelling is in the result only when it is the canonical identity of
\* another SKU that was passed.
C17_UnmarkedLabelOnly ==
    unique_skus.status = "ok" =>
        \A pair \in BothForms :
            /\ Cardinality({i \in 1..Len(ListedSkus) : ListedSkus[i] = pair[2]}) = 1
            /\ pair[1] \in Range(ListedSkus) =>
                   \E t \in PassedSkus : t # pair[1] /\ clean_sku_string(t) = pair[1]

\* The marked form was passed before the unmarked form, and the result is
\* the unmarked form alone.
C17_Witness ==
    /\ unique_skus.status = "ok"
    /\ Split(skus, <<",">>) = << <<"S", "-", "F", "B", "A", "-", "1">>, <<"S", "-", "1">> >>
    /\ ListedSkus = << <<"S", "-", "1">> >>

---------------------------------------------------------------------------
\* C19: the result of clean_sku_string contains no '-FBA-', and
\* clean_sku_string applied to its own result returns it unchanged.
C19_CleanSkuStripsMarker ==
    clean_sku.status = "ok" =>
        /\ ~Contains(clean_sku.value, Marker)
        /\ clean_sku.times = 2 => clean_sku.value = sku

---------------------------------------------------------------------------
\* C18: a load returns the current content of its files: what a loader
\* returned is the content the files had on disk when it was called, also
\* when a file was modified after an earlier load with the same key.
C18_CacheInvalidatedOnChange ==
    loaded.status = "ok" => loaded.value = loaded.on_disk

---------------------------------------------------------------------------
\* C20: the number of active filters stays within 1..3.  A click on 'Add
\* Filter' at 3 leaves it unchanged, 'Remove Last Filter' is not on the
\* screen while the number is 1, and a click that changes the number
\* changes it by exactly 1: Add by +1, Remove by -1.
C20_NumFiltersWithinBounds ==
    "num_filters" \in DOMAIN session_state =>
        LET n == session_state.num_filters
        IN  /\ n \in 1..3
            /\ (last_rerun.click = "Add Filter" /\ last_rerun.before = 3) => n = 3
            /\ n = 1 => "Remove Last Filter" \notin on_screen
            /\ n # last_rerun.before =>
                  \/ last_rerun.click = "Add Filter" /\ n = last_rerun.before + 1
                  \/ last_rerun.click = "Remove Last Filter" /\ n = last_rerun.before - 1

====
